---- MODULE Spec2Model ----
(***************************************************************************)
(* Model of water_scarcity: the SSWI row classifier (_parse_sswi_row), the *)
(* parallel map / sequential reduce of compute_risks, and the auxiliary    *)
(* filter_karst_by_type.                                                   *)
(*                                                                         *)
(* Real numbers are fixed-point integers in tenths (float("-1.4") is -14). *)
(* Text fields are strings; the point identifier is a tuple of characters  *)
(* so that startswith("#") is computed on its first character.             *)
(***************************************************************************)
EXTENDS Integers, Sequences, FiniteSets, TLC

VARIABLES
    rows,            \* the rows csv.reader yields from sswi_file
    karst_polygons,  \* the list of repaired karst polygons
    n_jobs,          \* number of worker processes
    batch_size,      \* rows per dispatched work unit, or Auto
    pc,              \* position of the coordinator in compute_risks
    jobs,            \* dispatched batches, in dispatch order
    overtaken,       \* some batch was delivered before an earlier one
    points,          \* the list joblib.Parallel returns
    cursor,          \* position of "for point in points"
    min_sswi,
    max_sswi,
    features,        \* horizon -> season -> list of features
    geojson,         \* first element of the returned pair
    metadata,        \* second element of the returned pair
    f,               \* filter_karst_by_type: the loaded collection
    type_,           \* filter_karst_by_type: the TypeZK wanted
    type_given,      \* whether the caller passed type_
    fpc,             \* position in filter_karst_by_type
    data             \* filter_karst_by_type: the returned collection

vars == <<rows, karst_polygons, n_jobs, batch_size, pc, jobs, overtaken, points,
          cursor, min_sswi, max_sswi, features, geojson, metadata,
          f, type_, type_given, fpc, data>>

riskVars == <<rows, karst_polygons, n_jobs, batch_size, pc, jobs, overtaken,
              points, cursor, min_sswi, max_sswi, features, geojson, metadata>>

filterVars == <<f, type_, type_given, fpc, data>>

----------------------------------------------------------------------------
(* Bounds of the model *)

MaxRows == 3        \* longest input table
MaxJobs == 2        \* largest n_jobs
MaxBatch == 2       \* largest batch_size
MaxFeatures == 3    \* longest karst feature list given to the filter
MaxType == 3        \* largest TypeZK value

----------------------------------------------------------------------------
(* Values *)

SEASONS == <<"winter", "spring", "summer", "autumn">>

PosInf == 1000000     \* math.inf
NegInf == -1000000    \* -math.inf
HighThreshold == -14  \* -1.4
LowThreshold == -7    \* -0.7
Auto == 0             \* batch_size="auto"
DefaultType == 1      \* type_=1

Unbound == [unbound |-> TRUE]   \* a local name not assigned yet
EmptyDict == [x \in {} |-> 0]

None == [kind |-> "None"]
Raise(e, fld) == [kind |-> "raise", error |-> e, field |-> fld]

Num(v) == [ok |-> TRUE, v |-> v]
NotNum == [ok |-> FALSE, v |-> 0]

\* float(s): the numeric texts of the model and their value in tenths
float(s) ==
    CASE s = "46.0" -> Num(460)
      [] s = "47.0" -> Num(470)
      [] s = "2.0"  -> Num(20)
      [] s = "-2.0" -> Num(-20)
      [] s = "-1.5" -> Num(-15)
      [] s = "-1.4" -> Num(-14)
      [] s = "-1.3" -> Num(-13)
      [] s = "-1.0" -> Num(-10)
      [] s = "-0.8" -> Num(-8)
      [] s = "-0.7" -> Num(-7)
      [] s = "-0.6" -> Num(-6)
      [] s = "-0.5" -> Num(-5)
      [] s = "0.3"  -> Num(3)
      [] OTHER      -> NotNum

\* int(s): the integer texts of the model
int(s) ==
    CASE s = "-5" -> Num(-5)
      [] s = "-4" -> Num(-4)
      [] s = "-3" -> Num(-3)
      [] s = "-2" -> Num(-2)
      [] s = "-1" -> Num(-1)
      [] s = "0"  -> Num(0)
      [] s = "1"  -> Num(1)
      [] s = "2"  -> Num(2)
      [] s = "3"  -> Num(3)
      [] s = "4"  -> Num(4)
      [] s = "5"  -> Num(5)
      [] s = "6"  -> Num(6)
      [] OTHER    -> NotNum

\* list[i] of Python: 0-based, a negative index counts from the end
ListIndexInRange(list, i) == -Len(list) <= i /\ i < Len(list)
ListIndex(list, i) == IF i >= 0 THEN list[i + 1] ELSE list[Len(list) + i + 1]

\* point.startswith("#")
startswith_hash(point) == Len(point) > 0 /\ point[1] = "#"

\* min(a, b) and max(a, b) of Python: the first argument wins ties
PyMin(a, b) == IF b < a THEN b ELSE a
PyMax(a, b) == IF b > a THEN b ELSE a

----------------------------------------------------------------------------
(* _is_point_in_multigon: a polygon is the set of points it contains *)

Point(lng, lat) == <<lng, lat>>

_is_point_in_multigon(point, polygons) ==
    \E i \in 1..Len(polygons) : point \in polygons[i]

----------------------------------------------------------------------------
(* _parse_sswi_row *)

\* faulty variant: the thresholds taken as inclusive
RiskLevelInclusive(sswi, in_karst) ==
    IF sswi <= HighThreshold /\ in_karst THEN 3
    ELSE IF sswi <= HighThreshold /\ ~in_karst THEN 2
    ELSE IF sswi <= LowThreshold THEN 1
    ELSE 0

RiskLevel(sswi, in_karst) ==
    IF sswi < HighThreshold /\ in_karst THEN 3
    ELSE IF sswi < HighThreshold /\ ~in_karst THEN 2
    ELSE IF sswi < LowThreshold THEN 1
    ELSE 0

Feature(lng, lat, sswi, in_karst) ==
    [type |-> "Feature",
     geometry |-> [type |-> "Point", coordinates |-> <<lng, lat>>],
     properties |-> [riskLevel |-> RiskLevel(sswi, in_karst),
                     sswi |-> sswi,
                     inKarst |-> in_karst]]

\* the row unpacks into 8 names and is not a comment
Unpacks(row) == Len(row) = 8
IsSkipped(row) == ~Unpacks(row) \/ startswith_hash(row[1])

\* faulty variant: SEASONS[int(season)], the ordinal taken as 0-based
SeasonLookupZeroBased(season) ==
    IF ~int(season).ok THEN Raise("ValueError", "season")
    ELSE IF ~ListIndexInRange(SEASONS, int(season).v)
         THEN Raise("IndexError", "season")
    ELSE [kind |-> "str", v |-> ListIndex(SEASONS, int(season).v)]

\* SEASONS[int(season) - 1]
SeasonLookup(season) ==
    IF ~int(season).ok THEN Raise("ValueError", "season")
    ELSE IF ~ListIndexInRange(SEASONS, int(season).v - 1)
         THEN Raise("IndexError", "season")
    ELSE [kind |-> "str", v |-> ListIndex(SEASONS, int(season).v - 1)]

ParseFields(row, polygons) ==
    IF SeasonLookup(row[6]).kind = "raise" THEN SeasonLookup(row[6])
    ELSE IF ~float(row[2]).ok THEN Raise("ValueError", "lat")
    ELSE IF ~float(row[3]).ok THEN Raise("ValueError", "lng")
    ELSE IF ~float(row[7]).ok THEN Raise("ValueError", "sswi")
    ELSE LET lat == float(row[2]).v
             lng == float(row[3]).v
             sswi == float(row[7]).v
             in_karst == _is_point_in_multigon(Point(lng, lat), polygons)
         IN [kind |-> "tuple",
             horizon |-> row[5],
             season |-> SeasonLookup(row[6]).v,
             feature |-> Feature(lng, lat, sswi, in_karst)]

\* faulty variant: the comment test left out
ParseRowNoCommentTest(row, polygons) ==
    IF ~Unpacks(row) THEN None ELSE ParseFields(row, polygons)

\* faulty variant: the try block around the whole body, so that every ValueError is
\* taken for a row that does not unpack
ParseRowBroadExcept(row, polygons) ==
    IF ~Unpacks(row) THEN None
    ELSE IF startswith_hash(row[1]) THEN None
    ELSE IF ParseFields(row, polygons).kind = "raise"
            /\ ParseFields(row, polygons).error = "ValueError" THEN None
    ELSE ParseFields(row, polygons)

_parse_sswi_row(row, polygons) ==
    IF ~Unpacks(row) THEN None
    ELSE IF startswith_hash(row[1]) THEN None
    ELSE ParseFields(row, polygons)

----------------------------------------------------------------------------
(* compute_risks: the reduction of lines 106-137 *)

RISK_LEVELS ==
    <<"",
      "Limitations de tous les prelevements d'eau",
      "Interdiction d'utiliser l'eau pour des usages non prioritaires",
      "Menaces de penuries en eau potable">>

\* features[h][s].append(p) on defaultdict(lambda: defaultdict(list))
AppendFeature(fs, h, s, p) ==
    LET inner == IF h \in DOMAIN fs THEN fs[h] ELSE EmptyDict
        cur == IF s \in DOMAIN inner THEN inner[s] ELSE <<>>
        inner2 == [x \in DOMAIN inner \cup {s} |->
                     IF x = s THEN Append(cur, p) ELSE inner[x]]
    IN [x \in DOMAIN fs \cup {h} |-> IF x = h THEN inner2 ELSE fs[x]]

\* faulty variant: the last value kept instead of the smallest
RunningMinLast(sswi, current) == sswi

RunningMin(sswi, current) == PyMin(sswi, current)
RunningMax(sswi, current) == PyMax(sswi, current)

\* one iteration of "for point in points"
ReducePoint(acc, point) ==
    IF point = None THEN acc
    ELSE [min |-> RunningMin(point.feature.properties.sswi, acc.min),
          max |-> RunningMax(point.feature.properties.sswi, acc.max),
          features |-> AppendFeature(acc.features, point.horizon,
                                     point.season, point.feature)]

\* faulty variant: the running extrema started at 0
InitialAccZero == [min |-> 0, max |-> 0, features |-> EmptyDict]

InitialAcc == [min |-> PosInf, max |-> NegInf, features |-> EmptyDict]

BuildGeojson(fs) ==
    [h \in DOMAIN fs |->
        [s \in DOMAIN fs[h] |->
            [type |-> "FeatureCollection", features |-> fs[h][s]]]]

BuildMetadata(lo, hi) ==
    [sswi |-> [min |-> lo, max |-> hi], riskLevels |-> RISK_LEVELS]

----------------------------------------------------------------------------
(* compute_risks: joblib.Parallel over the rows *)

Min2(a, b) == IF a < b THEN a ELSE b

\* a worker runs the rows lo..hi of its batch in order; the first exception
\* ends the batch
RECURSIVE RunBatch(_, _, _, _)
RunBatch(rs, polygons, lo, hi) ==
    IF lo > hi THEN <<>>
    ELSE LET r == _parse_sswi_row(rs[lo], polygons)
         IN IF r.kind = "raise" THEN <<r>>
            ELSE <<r>> \o RunBatch(rs, polygons, lo + 1, hi)

Dispatched == IF jobs = <<>> THEN 0 ELSE jobs[Len(jobs)].hi
Running == {j \in 1..Len(jobs) : jobs[j].status = "running"}
JobRaised(j) ==
    /\ jobs[j].status = "finished"
    /\ jobs[j].out # <<>>
    /\ jobs[j].out[Len(jobs[j].out)].kind = "raise"
SomeJobRaised == \E j \in 1..Len(jobs) : JobRaised(j)

\* faulty variant: the results of the batches taken latest first
RECURSIVE GatherReversed(_, _)
GatherReversed(js, j) ==
    IF j > Len(js) THEN <<>> ELSE GatherReversed(js, j + 1) \o js[j].out

\* the results of all batches, in dispatch order
RECURSIVE Gather(_, _)
Gather(js, j) == IF j > Len(js) THEN <<>> ELSE js[j].out \o Gather(js, j + 1)

BatchSizes == IF batch_size = Auto THEN 1..MaxBatch ELSE {batch_size}

\* a free worker takes the next batch of rows
Dispatch ==
    /\ pc = "parallel"
    /\ ~SomeJobRaised
    /\ Dispatched < Len(rows)
    /\ Cardinality(Running) < n_jobs
    /\ \E b \in BatchSizes :
          jobs' = Append(jobs, [lo |-> Dispatched + 1,
                                hi |-> Min2(Dispatched + b, Len(rows)),
                                status |-> "running",
                                out |-> <<>>])
    /\ UNCHANGED <<rows, karst_polygons, n_jobs, batch_size, pc, overtaken, points, cursor,
                   min_sswi, max_sswi, features, geojson, metadata, filterVars>>

\* a worker finishes its batch
Complete(j) ==
    /\ pc = "parallel"
    /\ jobs[j].status = "running"
    /\ jobs' = [jobs EXCEPT ![j] =
                  [@ EXCEPT !.status = "finished",
                            !.out = RunBatch(rows, karst_polygons,
                                            jobs[j].lo, jobs[j].hi)]]
    /\ overtaken' = (overtaken \/ \E i \in 1..(j - 1) : jobs[i].status = "running")
    /\ UNCHANGED <<rows, karst_polygons, n_jobs, batch_size, pc, points, cursor,
                   min_sswi, max_sswi, features, geojson, metadata, filterVars>>

\* faulty variant: the return not waiting for the running batches
AllDispatched == Dispatched = Len(rows)

\* every row is dispatched and every batch has delivered
AllDelivered == Dispatched = Len(rows) /\ Running = {}

\* joblib.Parallel returns the list of results; lines 106-110 follow
Collect ==
    /\ pc = "parallel"
    /\ AllDelivered
    /\ ~SomeJobRaised
    /\ points' = Gather(jobs, 1)
    /\ min_sswi' = InitialAcc.min
    /\ max_sswi' = InitialAcc.max
    /\ features' = InitialAcc.features
    /\ cursor' = 1
    /\ pc' = "reduce"
    /\ UNCHANGED <<rows, karst_polygons, n_jobs, batch_size, jobs, overtaken,
                   geojson, metadata, filterVars>>

\* the exception of a worker is raised in the caller: compute_risks ends
Abort ==
    /\ pc = "parallel"
    /\ SomeJobRaised
    /\ pc' = "raised"
    /\ UNCHANGED <<rows, karst_polygons, n_jobs, batch_size, jobs, overtaken, points, cursor,
                   min_sswi, max_sswi, features, geojson, metadata, filterVars>>

\* one iteration of the loop of lines 111-117
ReduceStep ==
    /\ pc = "reduce"
    /\ cursor <= Len(points)
    /\ LET acc == ReducePoint([min |-> min_sswi, max |-> max_sswi,
                               features |-> features], points[cursor])
       IN /\ min_sswi' = acc.min
          /\ max_sswi' = acc.max
          /\ features' = acc.features
    /\ cursor' = cursor + 1
    /\ UNCHANGED <<rows, karst_polygons, n_jobs, batch_size, pc, jobs, overtaken, points,
                   geojson, metadata, filterVars>>

\* lines 119-137: build the two returned values
Finalize ==
    /\ pc = "reduce"
    /\ cursor > Len(points)
    /\ geojson' = BuildGeojson(features)
    /\ metadata' = BuildMetadata(min_sswi, max_sswi)
    /\ pc' = "done"
    /\ UNCHANGED <<rows, karst_polygons, n_jobs, batch_size, jobs, overtaken, points, cursor,
                   min_sswi, max_sswi, features, filterVars>>

----------------------------------------------------------------------------
(* filter_karst_by_type *)

\* faulty variant: the wanted type ignored
TypeMatchesDefault(feature, t) == feature.properties.TypeZK = DefaultType

TypeMatches(feature, t) == feature.properties.TypeZK = t

\* the loop of lines 147-150 from position i on
RECURSIVE FilterLoop(_, _, _)
FilterLoop(fs, t, i) ==
    IF i > Len(fs) THEN <<>>
    ELSE (IF TypeMatches(fs[i], t) THEN <<fs[i]>> ELSE <<>>)
         \o FilterLoop(fs, t, i + 1)

filter_karst_by_type ==
    /\ fpc = "called"
    /\ data' = [f EXCEPT !.features = FilterLoop(f.features, type_, 1)]
    /\ fpc' = "returned"
    /\ UNCHANGED <<f, type_, type_given, riskVars>>

----------------------------------------------------------------------------
(* Inputs *)

Id(a, b) == <<a, b>>
Row(point, lat, lng, horizon, season, sswi) ==
    <<point, lat, lng, "x", horizon, season, sswi, "y">>

KarstA == {Point(20, 460)}
KarstB == {Point(20, 470), Point(460, 20)}

\* the rows of the tables of Spec
PipeRows ==
    { Row(Id("p", "1"), "46.0", "2.0", "h1", "3", "-2.0"),
      Row(Id("p", "2"), "46.0", "2.0", "h1", "3", "-0.5"),
      Row(Id("p", "3"), "47.0", "2.0", "h2", "0", "-1.0"),
      <<Id("p", "5"), "46.0">>,
      Row(Id("#", "c"), "bad", "2.0", "h1", "9", "-2.0"),
      Row(Id("p", "6"), "bad", "2.0", "h1", "1", "-2.0") }

\* the rows of the tables of SpecFatal: valid rows and one row for each
\* numeric field that does not parse
FatalRows ==
    { Row(Id("p", "1"), "46.0", "2.0", "h1", "3", "-2.0"),
      Row(Id("p", "3"), "47.0", "2.0", "h2", "1", "-1.0"),
      Row(Id("p", "6"), "bad", "2.0", "h1", "1", "-2.0"),
      Row(Id("p", "7"), "46.0", "bad", "h1", "2", "-2.0"),
      Row(Id("p", "8"), "47.0", "2.0", "h2", "4", "bad") }

\* the rows of the one-row tables of SpecRow
RowFields ==
    {<<"p", "1">>, <<"#", "c">>, <<>>}
      \X {"46.0", "2.0", "bad"}
      \X {"2.0", "46.0", "bad"}
      \X {"h1", "h2"}
      \X {"-4", "-3", "0", "1", "2", "3", "4", "5", "x"}
      \X {"-2.0", "-1.5", "-1.4", "-1.3", "-0.8", "-0.7", "-0.6", "0.3", "bad"}

RichRows ==
    {Row(t[1], t[2], t[3], t[4], t[5], t[6]) : t \in RowFields}
      \cup { <<>>,
             <<Id("p", "1"), "46.0", "2.0", "x", "h1", "3", "-2.0">>,
             <<Id("p", "1"), "46.0", "2.0", "x", "h1", "3", "-2.0", "y", "z">>,
             <<Id("p", "1"), "bad", "2.0", "x", "h1", "9", "-2.0", "y", "z">> }

Tables(S, n) == UNION {[1..k -> S] : k \in 0..n}

KarstFeatures ==
    {[type |-> "Feature", geometry |-> g, properties |-> [TypeZK |-> t]] :
        g \in {"A", "B"}, t \in 1..MaxType}

KarstCollections ==
    {[type |-> "FeatureCollection", name |-> n, features |-> fs] :
        n \in {"karst", "zk"}, fs \in Tables(KarstFeatures, MaxFeatures)}

IdleFilter ==
    /\ f = [type |-> "FeatureCollection", name |-> "karst", features |-> <<>>]
    /\ type_ = DefaultType
    /\ type_given = FALSE
    /\ fpc = "idle"
    /\ data = Unbound

Start ==
    /\ jobs = <<>>
    /\ overtaken = FALSE
    /\ points = Unbound
    /\ cursor = 0
    /\ min_sswi = Unbound
    /\ max_sswi = Unbound
    /\ features = Unbound
    /\ geojson = Unbound
    /\ metadata = Unbound

Init ==
    /\ rows \in Tables(PipeRows, MaxRows)
    /\ karst_polygons = <<KarstA>>
    /\ n_jobs \in {1, MaxJobs}
    /\ batch_size \in {Auto, MaxBatch}
    /\ pc = "parallel"
    /\ Start
    /\ IdleFilter

Next ==
    \/ Dispatch
    \/ \E j \in 1..Len(jobs) : Complete(j)
    \/ Collect
    \/ Abort
    \/ ReduceStep
    \/ Finalize

Spec == Init /\ [][Next]_vars

\* compute_risks on a table of one row, over every combination of field texts
InitRow ==
    /\ rows \in {<<r>> : r \in RichRows}
    /\ karst_polygons \in {<<>>, <<KarstA>>, <<KarstB, KarstA>>}
    /\ n_jobs = 1
    /\ batch_size = 1
    /\ pc = "parallel"
    /\ Start
    /\ IdleFilter

SpecRow == InitRow /\ [][Next]_vars

\* compute_risks on tables that mix valid rows and rows with a malformed number
InitFatal ==
    /\ rows \in Tables(FatalRows, MaxRows)
    /\ karst_polygons \in {<<>>, <<KarstA>>}
    /\ n_jobs \in {1, MaxJobs}
    /\ batch_size \in {Auto, MaxBatch}
    /\ pc = "parallel"
    /\ Start
    /\ IdleFilter

SpecFatal == InitFatal /\ [][Next]_vars

\* filter_karst_by_type called on a loaded collection
InitFilter ==
    /\ f \in KarstCollections
    /\ type_given \in BOOLEAN
    /\ type_ \in (IF type_given THEN 1..MaxType ELSE {DefaultType})
    /\ fpc = "called"
    /\ data = Unbound
    /\ rows = <<>>
    /\ karst_polygons = <<>>
    /\ n_jobs = 1
    /\ batch_size = 1
    /\ pc = "idle"
    /\ Start

NextFilter == filter_karst_by_type

SpecFilter == InitFilter /\ [][NextFilter]_vars

----------------------------------------------------------------------------
(* Reference and helpers of the properties *)

RECURSIVE ReduceAll(_, _, _)
ReduceAll(acc, pts, i) ==
    IF i > Len(pts) THEN acc ELSE ReduceAll(ReducePoint(acc, pts[i]), pts, i + 1)

\* compute_risks run without workers: the rows classified one by one in
\* input order, then reduced
ComputeRisksSeq(rs, polygons) ==
    LET res == [i \in 1..Len(rs) |-> _parse_sswi_row(rs[i], polygons)]
    IN IF \E i \in 1..Len(rs) : res[i].kind = "raise"
       THEN [status |-> "raised"]
       ELSE LET acc == ReduceAll(InitialAcc, res, 1)
            IN [status |-> "returned",
                geojson |-> BuildGeojson(acc.features),
                metadata |-> BuildMetadata(acc.min, acc.max)]

Ended == pc \in {"done", "raised"}

\* what the caller of compute_risks gets
Outcome ==
    IF pc = "done"
    THEN [status |-> "returned", geojson |-> geojson, metadata |-> metadata]
    ELSE [status |-> "raised"]

\* the elements of s at the positions in I, in order
RECURSIVE PickIdx(_, _, _)
PickIdx(s, I, i) ==
    IF i > Len(s) THEN <<>>
    ELSE (IF i \in I THEN <<s[i]>> ELSE <<>>) \o PickIdx(s, I, i + 1)

Count(s, x) == Cardinality({i \in 1..Len(s) : s[i] = x})
SameBag(s, t) ==
    /\ Len(s) = Len(t)
    /\ \A i \in 1..Len(s) : Count(s, s[i]) = Count(t, s[i])

SetMin(S) == CHOOSE x \in S : \A y \in S : x <= y
SetMax(S) == CHOOSE x \in S : \A y \in S : x >= y

Keys(g) == UNION {{<<h, s>> : s \in DOMAIN g[h]} : h \in DOMAIN g}

AllFeatures(g) ==
    UNION {{g[k[1]][k[2]].features[i] : i \in 1..Len(g[k[1]][k[2]].features)} :
             k \in Keys(g)}

\* the rows that are not skipped
NotSkipped(rs) == {i \in 1..Len(rs) : ~IsSkipped(rs[i])}

\* the delivered results, as pairs <<row number, result>>
Delivered ==
    UNION {{<<jobs[j].lo + k - 1, jobs[j].out[k]>> : k \in 1..Len(jobs[j].out)} :
             j \in 1..Len(jobs)}

InAnyPolygon(row) ==
    \E i \in 1..Len(karst_polygons) :
        <<float(row[3]).v, float(row[2]).v>> \in karst_polygons[i]

----------------------------------------------------------------------------
(* C1 *)

ExpectedRisk(sswi, in_karst) ==
    IF sswi < -14 /\ in_karst THEN 3
    ELSE IF sswi < -14 /\ ~in_karst THEN 2
    ELSE IF -14 <= sswi /\ sswi < -7 THEN 1
    ELSE 0

\* C1: every classified row yields a feature whose riskLevel is determined by
\* (sswi, inKarst): 3 below -1.4 inside karst, 2 below -1.4 outside, 1 in
\* [-1.4, -0.7), 0 from -0.7 up; the bounds are strict, and with no polygon
\* no feature has level 3.
C1_RiskLevel ==
    \A d \in Delivered :
        d[2].kind = "tuple" =>
            LET row == rows[d[1]]
                pr == d[2].feature.properties
            IN /\ pr.sswi = float(row[7]).v
               /\ pr.inKarst = InAnyPolygon(row)
               /\ pr.riskLevel = ExpectedRisk(pr.sswi, pr.inKarst)
               /\ (pr.sswi = -14 => pr.riskLevel = 1)
               /\ (pr.sswi = -7 => pr.riskLevel = 0)
               /\ (karst_polygons = <<>> => pr.riskLevel # 3)

C1_Witness ==
    /\ pc = "done"
    /\ \E d \in Delivered :
          /\ d[2].kind = "tuple"
          /\ d[2].feature.properties.sswi = -14
          /\ d[2].feature.properties.inKarst
          /\ d[2].feature.properties.riskLevel = 1

----------------------------------------------------------------------------
(* C2 *)

SswiOf(g) == {x.properties.sswi : x \in AllFeatures(g)}

----------------------------------------------------------------------------
(* C3 *)

SkipRow(row) == Len(row) # 8 \/ (Len(row[1]) > 0 /\ row[1][1] = "#")

RemoveSkipRows(rs) == PickIdx(rs, {i \in 1..Len(rs) : ~SkipRow(rs[i])}, 1)

\* C3: a row without exactly 8 fields, or whose identifier starts with '#',
\* gives no result and raises nothing, whatever its other fields hold; the
\* outcome of compute_risks is the outcome on the table without these rows.
C3_SkipLaw ==
    /\ \A d \in Delivered : SkipRow(rows[d[1]]) => d[2] = None
    /\ Ended => Outcome = ComputeRisksSeq(RemoveSkipRows(rows), karst_polygons)

C3_Witness ==
    /\ pc = "done"
    /\ \E i, j, k \in 1..Len(rows) :
          /\ Len(rows[i]) = 8 /\ SkipRow(rows[i]) /\ ~float(rows[i][2]).ok
          /\ Len(rows[j]) < 8
          /\ ~SkipRow(rows[k])
    /\ Keys(geojson) # {}

----------------------------------------------------------------------------
(* C4 *)

MalformedNumber(row) ==
    /\ Len(row) = 8
    /\ ~(Len(row[1]) > 0 /\ row[1][1] = "#")
    /\ (~float(row[2]).ok \/ ~float(row[3]).ok \/ ~float(row[7]).ok)

\* C4: if some row has 8 fields, is no comment and holds a non-numeric
\* latitude, longitude or SSWI, compute_risks never reaches the reduction,
\* binds neither returned value, and can only end by raising.
C4_FatalAborts ==
    (\E i \in 1..Len(rows) : MalformedNumber(rows[i])) =>
        /\ pc \in {"parallel", "raised"}
        /\ geojson = Unbound
        /\ metadata = Unbound
        /\ (~ENABLED Next => pc = "raised")

C4_Witness ==
    /\ pc = "raised"
    /\ Len(rows) = 3
    /\ MalformedNumber(rows[2])
    /\ ~float(rows[2][7]).ok
    /\ overtaken
    /\ ~MalformedNumber(rows[1]) /\ ~SkipRow(rows[1])
    /\ ~MalformedNumber(rows[3]) /\ ~SkipRow(rows[3])
    /\ \E d \in Delivered : d[2].kind = "tuple"

----------------------------------------------------------------------------
(* C5 *)

OrdinalOutOfRange(row) ==
    /\ ~SkipRow(row)
    /\ int(row[6]).ok
    /\ int(row[6]).v \notin 1..4

\* C5: a non-skipped row whose season ordinal is an integer outside 1..4
\* yields no feature, and compute_risks does not return for a table that
\* holds such a row.
C5_OrdinalFatal ==
    /\ \A d \in Delivered : OrdinalOutOfRange(rows[d[1]]) => d[2].kind = "raise"
    /\ (\E i \in 1..Len(rows) : OrdinalOutOfRange(rows[i])) => pc # "done"

----------------------------------------------------------------------------
(* C6 *)

Permuted(rs, q) == [i \in 1..Len(rs) |-> rs[q[i]]]

SameUpToOrder(o1, o2) ==
    /\ o1.status = o2.status
    /\ o1.status = "returned" =>
          /\ Keys(o1.geojson) = Keys(o2.geojson)
          /\ \A k \in Keys(o1.geojson) :
                SameBag(o1.geojson[k[1]][k[2]].features,
                        o2.geojson[k[1]][k[2]].features)
          /\ o1.metadata.sswi.min = o2.metadata.sswi.min
          /\ o1.metadata.sswi.max = o2.metadata.sswi.max

----------------------------------------------------------------------------
(* C7 *)

Wanted == {i \in 1..Len(f.features) : f.features[i].properties.TypeZK = type_}

\* C7: filter_karst_by_type returns the collection with its features replaced
\* by the input features whose TypeZK equals type_ (1 when not given), each
\* once and in their original order, unmodified; the other keys are unchanged.
C7_Filter ==
    fpc = "returned" =>
        /\ (~type_given => type_ = 1)
        /\ data.features = PickIdx(f.features, Wanted, 1)
        /\ DOMAIN data = DOMAIN f
        /\ \A k \in DOMAIN f \ {"features"} : data[k] = f[k]

C7_Witness ==
    /\ fpc = "returned"
    /\ Len(f.features) = 3
    /\ Len(data.features) = 2
    /\ data.features[1] # data.features[2]
    /\ f.features[2].properties.TypeZK # type_

----------------------------------------------------------------------------
(* C8 *)

\* C8: for every number of workers, batch size and order of completion, the
\* outcome of compute_risks is the outcome of classifying the rows one by one
\* in input order.
C8_Deterministic ==
    Ended => Outcome = ComputeRisksSeq(rows, karst_polygons)

C8_Witness ==
    /\ pc = "done"
    /\ n_jobs = MaxJobs
    /\ overtaken
    /\ \E k \in Keys(geojson) :
          /\ Len(geojson[k[1]][k[2]].features) >= 2
          /\ geojson[k[1]][k[2]].features[1] # geojson[k[1]][k[2]].features[2]

----------------------------------------------------------------------------
(* C9 *)

----------------------------------------------------------------------------
(* C10 *)

\* SEASONS[k - 1] for the ordinal text of a row
SeasonOfOrdinal(k) == ListIndex(SEASONS, k - 1)

SeasonNames == {"winter", "spring", "summer", "autumn"}
Horizons == {rows[i][5] : i \in NotSkipped(rows)} \cup DOMAIN geojson

RowsOfKey(h, s) ==
    {i \in NotSkipped(rows) :
        rows[i][5] = h /\ SeasonOfOrdinal(int(rows[i][6]).v) = s}

====
